---- MODULE Spec2Model ----
(***************************************************************************)
(* Page-parsing and persistence pipeline of language-learning-method:      *)
(* the page/book store (service/persitence_service.py), the extraction     *)
(* client (service/text_extraction_service.py), the page splitter          *)
(* (service/pdf_splitter.py) and the parsing orchestrator                  *)
(* (service/pdf_parser.py) driven by the parse_pdf command (app/main.py).  *)
(*                                                                         *)
(* Timestamps (parsed_at, date_added) and the AUTOINCREMENT row ids of     *)
(* parsed_pages are not read by any operation modelled here and are left   *)
(* out of the rows.  A table is the set of its rows, so that two rows with *)
(* the same (book_path, page_number) are representable.                    *)
(***************************************************************************)
EXTENDS Integers, Sequences, FiniteSets, TLC

\* ------------------------------------------------------------------ bounds
\* pages of the longest document
MaxPages == 3
\* polls of one task that may answer a non-terminal state
MaxPolls == 2
\* highest page number used by direct store calls (SpecStore)
MaxStorePage == 1
\* rows of the books table (SpecStore)
MaxBooks == 2

\* exercises stored by direct calls of the exercise store
MaxExercises == 2

\* questions of one stored exercise
MaxQuestions == 2

\* ------------------------------------------------------------------ values
\* Python's None
None == "None"

\* Python truthiness of an Optional[str]
Truthy(x) == x \notin {None, ""}

\* the documents on disk and their page counts
Docs == {"d1", "d2"}

NumPages(d) == IF d = "d1" THEN MaxPages ELSE MaxPages - 1

\* texts the OCR service can answer for a page of document d
OcrTexts(d) == IF d = "d1" THEN {"d1-v1", "d1-v2"} ELSE {"d2-v1", "d2-v2"}

Texts == UNION {OcrTexts(d) : d \in Docs}

\* the document a text was read from
TextDoc(t) == CHOOSE d \in Docs : t \in OcrTexts(d)

TaskIds == {"k1"}

BookNames == {"b1", "b2"}

\* tempfile.gettempdir() / "temp.pdf"
TempPdf == [dir |-> "tmp", stem |-> "temp", suffix |-> ".pdf"]

\* Path.stem
Stem(path) == path.stem

\* a single-page artifact written by the splitter: page `page` of document `doc`
\* under the name <stem>-pages/<stem>-page_<page+1>.pdf
Artifact(stem, doc, page) == [stem |-> stem, number |-> page + 1, doc |-> doc, page |-> page]

\* ------------------------------------------------------------------ state
VARIABLES
    books,          \* table books: sequence of rows [name, content] in rowid order
    parsed_pages,   \* table parsed_pages: set of rows
    temp_pdf,       \* content of the file temp.pdf, None when it does not exist
    pc,             \* position of the running command
    run_book,       \* book name given to the parse_pdf command
    run_doc,        \* content of that book (the document being parsed)
    book_name,      \* PDFParser.parse_pdf: book_name = pdf_path.stem
    pages,          \* PDFParser.parse_pdf: mapping returned by split_pdf
    page_num,       \* PDFParser.parse_pdf: loop variable
    x_caller,       \* who called extract_text: "parser" or "api"
    x_file,         \* _process_single_file: file_path
    task_id,        \* _process_single_file: task_id
    result,         \* value returned by extract_text
    http,           \* HTTP calls made by the current extract_text call, in order
    checked,        \* history: answer of is_page_parsed for each page of this run
    extracted,      \* history: result of extract_text for each page of this run
    stored,         \* history: pages this run called store_parsed_page for
    outcome,        \* history: how the last run ended
    failed_page,    \* history: page number named in the fatal error
    run_no,         \* history: number of runs started (SpecTwice)
    first_rows,     \* history: parsed_pages when the first run ended (SpecTwice)
    last_store      \* history: last direct store call (SpecStore)

VARIABLES
    exercises,          \* table exercises: sequence of committed rows in rowid order
    exercise_questions, \* table exercise_questions: set of committed rows
    tx,                 \* store_exercise in progress: its uncommitted writes
    ex_ret,             \* what the last store_exercise call gave its caller
    given               \* history: the StoredExercise passed to each committed call

VARIABLES
    race,               \* two parse_pdf runs at once: each run's position and locals
    race_calls          \* history: texts extract_text returned for each page (SpecRace)

VARIABLES
    xe,                 \* extract_exercises in progress: its arguments and loop variable
    exercise_files,     \* the .md files under <data>/exercises
    detected            \* history: exercises the LLM reported for each (book, page)

extractVars == <<xe, exercise_files, detected>>

VARIABLES
    rd                  \* get_exercises in progress: rows read and result so far

VARIABLES
    pdf_file,           \* content of the input file a.pdf, "missing" when absent
    output_dir,         \* the directory a-pages: whether it exists and its files
    split_ret           \* history: outcome of the last split_pdf(a.pdf) call

splitVars == <<pdf_file, output_dir, split_ret>>

VARIABLES
    service_hangs       \* the OCR service has stopped finishing its tasks (SpecLive)

VARIABLES
    shown               \* history: the last show-pages command, its inputs and output

VARIABLES
    llms_config,        \* settings.llms_config: LLM name -> LLMConfig
    default_llm_name,   \* settings.default_llm_name
    factory             \* history: the last get_service_factory call and its outcome

configVars == <<llms_config, default_llm_name, factory>>

VARIABLES
    jobs,               \* two parse_pdf_from_bytes calls running side by side
    tmp_file,           \* content of <tmp>/temp.pdf shared by them, "missing" when absent
    tmp_dir             \* the directory <tmp>/temp-pages shared by them

jobVars == <<jobs, tmp_file, tmp_dir>>

moreVars == <<shown, configVars, jobVars>>

lateVars == <<service_hangs, moreVars>>

VARIABLES
    store_ret           \* what the last store_parsed_page / clear_book_pages returned

exerciseVars == <<exercises, exercise_questions, tx, ex_ret, given>>

raceVars == <<race, race_calls>>

sideVars == <<exerciseVars, raceVars, store_ret, extractVars, rd, splitVars, lateVars>>

auxVars == <<last_store, sideVars>>

vars == <<books, parsed_pages, temp_pdf, pc, run_book, run_doc, book_name, pages,
          page_num, x_caller, x_file, task_id, result, http, checked, extracted,
          stored, outcome, failed_page, run_no, first_rows, last_store, sideVars>>

storeVars == <<books, parsed_pages>>
runVars == <<run_book, run_doc, book_name, pages, page_num>>
clientVars == <<x_caller, x_file, task_id, result, http>>
histVars == <<checked, extracted, stored, outcome, failed_page>>
twiceVars == <<run_no, first_rows>>

\* ------------------------------------------------- store: persitence_service
\* a row of parsed_pages built from a ParsedPage object
ParsedPage(book, page, content, task) ==
    [book_path |-> book, page_number |-> page, content |-> content,
     extraction_task_id |-> task]

\* rows selected by WHERE book_path = ? AND page_number = ?
RowsOf(rows, book, page) ==
    {r \in rows : r.book_path = book /\ r.page_number = page}

\* INSERT OR REPLACE under UNIQUE(book_path, page_number): the rows that
\* conflict with the new row are deleted, then the new row is inserted
InsertOrReplace(rows, row) ==
    (rows \ RowsOf(rows, row.book_path, row.page_number)) \cup {row}

\* store_parsed_page with a plain INSERT into a table without the constraint
store_parsed_page_plain(rows, parsed_page) == rows \cup {parsed_page}

\* PersistenceService.store_parsed_page: the table after the call
store_parsed_page(rows, parsed_page) == InsertOrReplace(rows, parsed_page)

\* PersistenceService.is_page_parsed: SELECT COUNT(*) ... > 0
is_page_parsed(rows, book, page) == Cardinality(RowsOf(rows, book, page)) > 0

\* the value None where a ParsedPage is expected
NoRow == [book_path |-> None, page_number |-> -1, content |-> None,
          extraction_task_id |-> None]

\* PersistenceService.get_parsed_page: fetchone() of the matching rows, or None
get_parsed_page(rows, book, page) ==
    IF RowsOf(rows, book, page) = {} THEN NoRow
    ELSE CHOOSE r \in RowsOf(rows, book, page) : TRUE

\* LanguageLearningMethodSettings.llms_config as the class declares it
DefaultLlmsConfig == [n \in {"gpt-4o"} |-> "langchain_openai.ChatOpenAI"]

\* get_service_factory has not been called
NoFactory == [llm_name |-> None, kind |-> "none", llm_config |-> None]

\* everything but the settings
notConfigVars == <<storeVars, temp_pdf, pc, runVars, clientVars, histVars, twiceVars,
                   last_store, exerciseVars, raceVars, store_ret, extractVars, rd,
                   splitVars, service_hangs, shown, jobVars>>

\* no show-pages command has run
NotShown == [kind |-> "none", start |-> 0, number |-> 0, listing |-> << >>,
             pages |-> << >>]

\* ORDER BY page_number taken the wrong way round
page_precedes_desc(a, b) == a.page_number > b.page_number

\* get_all_parsed_pages: ORDER BY page_number, row a is returned before row b
page_precedes(a, b) == a.page_number < b.page_number

\* the rows of `rows`, which differ in page_number, in the order of the SELECT
RECURSIVE OrderByPage(_)
OrderByPage(rows) ==
    IF rows = {} THEN << >>
    ELSE LET first == CHOOSE r \in rows : \A o \in rows \ {r} : page_precedes(r, o)
         IN  <<first>> \o OrderByPage(rows \ {first})

\* PersistenceService.get_all_parsed_pages: SELECT ... WHERE book_path = ?
\* ORDER BY page_number
get_all_parsed_pages(rows, book) == OrderByPage({r \in rows : r.book_path = book})

\* PersistenceService.clear_book_pages: DELETE FROM parsed_pages WHERE book_path = ?
clear_book_pages(rows, book) == {r \in rows : r.book_path # book}

\* PersistenceService.add_book: INSERT INTO books
add_book(table, name, content) == Append(table, [name |-> name, content |-> content])

\* the value None where a Book is expected
NoBook == [name |-> None, content |-> None]

\* PersistenceService.get_book: fetchone() of the rows WHERE name = ?, or None
get_book(table, name) ==
    IF \E i \in 1..Len(table) : table[i].name = name
    THEN table[CHOOSE i \in 1..Len(table) :
                 /\ table[i].name = name
                 /\ \A j \in 1..(i - 1) : table[j].name # name]
    ELSE NoBook

\* PersistenceService.list_book_names
list_book_names(table) == [i \in 1..Len(table) |-> table[i].name]

\* DELETE FROM books removing one row only
DeleteBookRows_first(table, name) ==
    IF \A i \in 1..Len(table) : table[i].name # name THEN table
    ELSE LET i == CHOOSE k \in 1..Len(table) :
                      /\ table[k].name = name
                      /\ \A j \in 1..(k - 1) : table[j].name # name
         IN  SubSeq(table, 1, i - 1) \o SubSeq(table, i + 1, Len(table))

\* DELETE FROM books WHERE name = ?
DeleteBookRows(table, name) == SelectSeq(table, LAMBDA b : b.name # name)

\* ------------------------------------------------- splitter: pdf_splitter
\* PDFSplitter.split_pdf on an existing, readable PDF holding document doc:
\* created_files[page_num] for page_num in range(len(pdf_reader.pages))
split_pdf(pdf_path, doc) ==
    [p \in 0..(NumPages(doc) - 1) |-> Artifact(Stem(pdf_path), doc, p)]

\* ------------------------------------------------- extraction client values
\* ExtractionResult(file_path, extracted_text, error, task_id); is_none marks the
\* Python value None returned when _process_single_file runs off its end
ExtractionResult(text, error, task) ==
    [is_none |-> FALSE, extracted_text |-> text, error |-> error, task_id |-> task]

NoResult == [is_none |-> TRUE, extracted_text |-> None, error |-> None, task_id |-> None]

\* history value: extract_text was not called for the page
NotCalled == [is_none |-> TRUE, extracted_text |-> "not-called", error |-> None, task_id |-> None]

\* what POST /ocr/upload or /ocr/request can do: status != 200 or a transport
\* error ("fail"), a 200 answer whose JSON is not an object ("malformed"), or a 200
\* answer with a JSON object holding text and/or task_id
SubmitResponses(doc) ==
    {[kind |-> "fail", text |-> None, task_id |-> None],
     [kind |-> "malformed", text |-> None, task_id |-> None]}
    \cup [kind : {"json"}, text : {None, ""} \cup OcrTexts(doc), task_id : {None} \cup TaskIds]

\* what GET /ocr/result/{task_id} can do: status != 200 ("non200"), a transport
\* error or a body without 'state' ("raise"), or a 200 answer with a state
PollResponses(doc) ==
    {[kind |-> "non200", state |-> None, result |-> None],
     [kind |-> "raise", state |-> None, result |-> None],
     [kind |-> "json", state |-> "PENDING", result |-> None],
     [kind |-> "json", state |-> "FAILURE", result |-> None]}
    \cup [kind : {"json"}, state : {"SUCCESS"}, result : {None, ""} \cup OcrTexts(doc)]

\* the value None where a response dict is expected
NoDict == [kind |-> "none", text |-> None, task_id |-> None]

\* number of calls to an endpoint in a trace
Calls(trace, ep) == Cardinality({i \in 1..Len(trace) : trace[i].ep = ep})

\* ------------------------------------------------- extraction client decisions
\* _upload_file / _request_file: response.json() on status 200, None otherwise
\* (a transport error is caught and gives None as well)
submit_result(resp) == IF resp.kind = "fail" THEN NoDict ELSE resp

\* the fallback test never firing
is_none_dict_never(r) == FALSE

\* _process_single_file: "if result is None"
is_none_dict(r) == r = NoDict

\* the direct-text shortcut never taken
has_text_never(body) == FALSE

\* _process_single_file: "if result.get('text')"
has_text(body) == Truthy(body.text)

\* _process_single_file: "if task_id"
has_task(body) == Truthy(body.task_id)

\* _get_result: the value returned for a poll answer that ends the loop
\* (None on status != 200 and on state FAILURE, result['result'] on SUCCESS)
get_result_value(resp) ==
    IF resp.kind = "json" /\ resp.state = "SUCCESS" THEN resp.result ELSE None

\* the loop giving up after any answer
polls_again_never(resp) == FALSE

\* _get_result: whether the loop sleeps and polls again after this answer
polls_again(resp) == resp.kind = "json" /\ resp.state \notin {"SUCCESS", "FAILURE"}

\* ------------------------------------------------- orchestrator decisions
\* the idempotency gate left out: every page is extracted
needs_extraction_always(rows, book, page) == TRUE

\* PDFParser.parse_pdf: "if not self.persistence_service.is_page_parsed(...)"
needs_extraction(rows, book, page) == ~is_page_parsed(rows, book, page)

\* the error test never firing
is_fatal_never(res) == FALSE

\* PDFParser.parse_pdf: "if result.error" (on an ExtractionResult)
is_fatal(res) == Truthy(res.error)

\* the loop leaving out every other page
next_page_skipping(p) == p + 2

\* PDFParser.parse_pdf: "for page_num in sorted(pages.keys())", the key after p
\* of a mapping whose keys are 0..n-1
next_page(p) == p + 1

\* the truth test on result.extracted_text left out
is_storable_always(res) == TRUE

\* PDFParser.parse_pdf: "if result.extracted_text"
is_storable(res) == Truthy(res.extracted_text)

\* ------------------------------------------------------------------ Init
NoFile == [stem |-> None, number |-> 0, doc |-> None, page |-> 0]

NoPages == [p \in {} |-> NoFile]

AllPages == 0..(MaxPages - 1)

\* the library after `book add` of d1 as b1 and of d2 as b2
Library == <<[name |-> "b1", content |-> "d1"], [name |-> "b2", content |-> "d2"]>>

\* ------------------------------------------------- store: exercises
\* get_exercises(book_path, page_number=None): the value of an omitted page filter
NoPage == -1

\* a StoredExercise object; id 0 stands for id=None of an object not yet stored
StoredExercise(id, book, page, title, instructions, questions) ==
    [id |-> id, book_path |-> book, page_number |-> page, title |-> title,
     instructions |-> instructions, questions |-> questions]

\* the row INSERT INTO exercises writes for `exercise` under row id `id`
ExerciseRow(id, exercise) ==
    [id |-> id, book_path |-> exercise.book_path, page_number |-> exercise.page_number,
     title |-> exercise.title, instructions |-> exercise.instructions]

\* the row INSERT INTO exercise_questions writes
QuestionRow(id, exercise_id, question, question_order) ==
    [id |-> id, exercise_id |-> exercise_id, question |-> question,
     question_order |-> question_order]

\* cursor.lastrowid giving every insert the same identifier
lastrowid_same(n) == 1

\* cursor.lastrowid of an AUTOINCREMENT table holding n rows, none ever deleted
lastrowid(n) == n + 1

\* no store_exercise call is in progress
NoTx ==
    [active |-> FALSE, exercise |-> StoredExercise(0, None, 0, None, None, << >>),
     exercise_id |-> 0, ex_rows |-> << >>, q_rows |-> {}, i |-> 0]

NoRet == [kind |-> "none", id |-> 0, error |-> None]

\* ORDER BY question_order taken the wrong way round
precedes_desc(a, b) == a.question_order > b.question_order

\* ORDER BY question_order: row a is returned before row b
precedes(a, b) == a.question_order < b.question_order

\* the rows of `rows` in the order the SELECT returns them (equal keys in rowid order)
RECURSIVE OrderBy(_)
OrderBy(rows) ==
    IF rows = {} THEN << >>
    ELSE LET first == CHOOSE r \in rows : \A o \in rows \ {r} :
                          \/ precedes(r, o)
                          \/ r.question_order = o.question_order /\ r.id < o.id
         IN  <<first>> \o OrderBy(rows \ {first})

\* get_exercises: the questions of one exercise, SELECT question ... ORDER BY
questions_of(q_rows, exercise_id) ==
    LET sorted == OrderBy({q \in q_rows : q.exercise_id = exercise_id})
    IN  [k \in 1..Len(sorted) |-> sorted[k].question]

\* get_exercises: the exercise rows the first SELECT returns
select_exercises(ex_rows, book_path, page_number) ==
    SelectSeq(ex_rows, LAMBDA r : /\ r.book_path = book_path
                                  /\ page_number # NoPage => r.page_number = page_number)

\* PersistenceService.get_exercises(book_path, page_number) run without interruption
get_exercises(ex_rows, q_rows, book_path, page_number) ==
    LET rows == select_exercises(ex_rows, book_path, page_number)
    IN  [k \in 1..Len(rows) |->
            StoredExercise(rows[k].id, rows[k].book_path, rows[k].page_number,
                           rows[k].title, rows[k].instructions,
                           questions_of(q_rows, rows[k].id))]

\* ------------------------------------------------- two runs at once
\* the two processes running PDFParser.parse_pdf on the same document
Runs == {1, 2}

IdleRun == [pc |-> "idle", page_num |-> 0, result |-> NoResult]

\* ------------------------------------------------- exercise extraction
\* extract_exercises is not running
NoExtract == [pc |-> "idle", book_name |-> None, page_num |-> 0, end_page |-> 0]

\* ------------------------------------------------- splitter with its files
\* the input file does not exist
Missing == "missing"

\* the content of a file PyPDF2 cannot read as a PDF
Corrupt == "bad"

\* the path a.pdf given to split_pdf
InputPdf == [dir |-> "in", stem |-> "a", suffix |-> ".pdf"]

\* the output directory does not exist
NoDir == [exists |-> FALSE, files |-> {}]

NoSplit == [kind |-> "none", files |-> NoPages, doc |-> None, dir_before |-> NoDir]

\* the output directory left as it was found
recreate_dir_keeping(dir) == [exists |-> TRUE, files |-> dir.files]

\* split_pdf: shutil.rmtree(output_dir) if it exists, then output_dir.mkdir
recreate_dir(dir) == [exists |-> TRUE, files |-> {}]

\* split_pdf: the files of the directory after the artifacts of `created` are
\* written, each over a file of the same name
write_pages(dir, created) ==
    [exists |-> TRUE,
     files |-> {f \in dir.files : \A p \in DOMAIN created : created[p].number # f.number}
                   \cup {created[p] : p \in DOMAIN created}]

\* split_pdf wiping the output directory before it looks for the input file
split_pdf_call_wiping(content, dir, pdf_path) ==
    IF content = Missing
    THEN [kind |-> "NotFound", files |-> NoPages, dir |-> recreate_dir(dir)]
    ELSE IF content = Corrupt
    THEN [kind |-> "CorruptInput", files |-> NoPages, dir |-> recreate_dir(dir)]
    ELSE [kind |-> "ok", files |-> split_pdf(pdf_path, content),
          dir |-> write_pages(recreate_dir(dir), split_pdf(pdf_path, content))]

\* PDFSplitter.split_pdf(pdf_path) on a file holding `content`, the output
\* directory being `dir`: what it returns or raises, and the directory afterwards
split_pdf_call(content, dir, pdf_path) ==
    IF content = Missing
    THEN [kind |-> "NotFound", files |-> NoPages, dir |-> dir]
    ELSE IF content = Corrupt
    THEN [kind |-> "CorruptInput", files |-> NoPages, dir |-> recreate_dir(dir)]
    ELSE [kind |-> "ok", files |-> split_pdf(pdf_path, content),
          dir |-> write_pages(recreate_dir(dir), split_pdf(pdf_path, content))]

\* parse_pdf_from_bytes has not been called; handed is the last page artifact
\* given to extract_text: for which page, and what the file held when it was read
IdleJob == [pc |-> "idle", doc |-> None, pages |-> NoPages, page_num |-> 0,
            handed |-> [page |-> -1, file |-> NoFile], outcome |-> "none"]

\* get_exercises is not running
NoRead == [pc |-> "idle", rows |-> << >>, i |-> 0, out |-> << >>]

\* a reader seeing the writes of a transaction that has not committed
read_uncommitted(ex_rows, q_rows, pending) ==
    [exercises |-> ex_rows \o pending.ex_rows,
     exercise_questions |-> q_rows \cup pending.q_rows]

\* what a statement of another connection reads while store_exercise holds its
\* transaction open: the committed rows
read_committed(ex_rows, q_rows, pending) ==
    [exercises |-> ex_rows, exercise_questions |-> q_rows]

InitSide ==
    /\ exercises = << >>
    /\ exercise_questions = {}
    /\ tx = NoTx
    /\ ex_ret = NoRet
    /\ given = << >>
    /\ race = [r \in Runs |-> IdleRun]
    /\ race_calls = [p \in AllPages |-> {}]
    /\ store_ret = "none"
    /\ rd = NoRead
    /\ pdf_file = Missing
    /\ output_dir = NoDir
    /\ split_ret = NoSplit
    /\ service_hangs = FALSE
    /\ shown = NotShown
    /\ llms_config = DefaultLlmsConfig
    /\ default_llm_name = "gpt-4o"
    /\ factory = NoFactory
    /\ jobs = [r \in Runs |-> IdleJob]
    /\ tmp_file = Missing
    /\ tmp_dir = NoDir
    /\ xe = NoExtract
    /\ exercise_files = {}
    /\ detected = {}

NoStore ==
    [op |-> "none", book |-> None, page |-> 0, content |-> None, before |-> {},
     count |-> 0]

Init ==
    /\ books = Library
    /\ parsed_pages = {}
    /\ temp_pdf = None
    /\ pc = "idle"
    /\ run_book = None
    /\ run_doc = None
    /\ book_name = None
    /\ pages = NoPages
    /\ page_num = 0
    /\ x_caller = None
    /\ x_file = NoFile
    /\ task_id = None
    /\ result = NoResult
    /\ http = << >>
    /\ checked = [p \in AllPages |-> "unchecked"]
    /\ extracted = [p \in AllPages |-> NotCalled]
    /\ stored = {}
    /\ outcome = "none"
    /\ failed_page = -1
    /\ run_no = 0
    /\ first_rows = {}
    /\ last_store = NoStore
    /\ InitSide

\* ------------------------------------------------- orchestrator: pdf_parser
\* main.parse_pdf(book_name) up to the first loop iteration of PDFParser.parse_pdf:
\* get_book, then parse_pdf_from_bytes writes the content to temp.pdf and calls
\* parse_pdf(temp.pdf), which takes book_name from the path and splits the file
StartParse(name) ==
    /\ pc \in {"idle", "done"}
    /\ run_book' = name
    /\ checked' = [p \in AllPages |-> "unchecked"]
    /\ extracted' = [p \in AllPages |-> NotCalled]
    /\ stored' = {}
    /\ failed_page' = -1
    /\ page_num' = 0
    /\ IF get_book(books, name) = NoBook
       THEN /\ outcome' = "not-found"
            /\ pc' = "done"
            /\ run_doc' = None
            /\ UNCHANGED <<temp_pdf, book_name, pages>>
       ELSE /\ outcome' = "running"
            /\ pc' = "loop"
            /\ run_doc' = get_book(books, name).content
            /\ temp_pdf' = get_book(books, name).content
            /\ book_name' = Stem(TempPdf)
            /\ pages' = split_pdf(TempPdf, get_book(books, name).content)
    /\ UNCHANGED <<storeVars, clientVars, auxVars>>

\* the parse_pdf command of app/main.py
ParsePdfCmd(name) ==
    /\ StartParse(name)
    /\ UNCHANGED twiceVars

\* PDFParser.parse_pdf: the loop is exhausted; parse_pdf_from_bytes unlinks temp.pdf
Finish ==
    /\ pc = "loop"
    /\ page_num \notin DOMAIN pages
    /\ pc' = "done"
    /\ outcome' = "returned"
    /\ temp_pdf' = None
    /\ first_rows' = IF run_no = 1 THEN parsed_pages ELSE first_rows
    /\ UNCHANGED <<storeVars, runVars, clientVars, checked, extracted, stored,
                   failed_page, run_no, auxVars>>

\* PDFParser.parse_pdf: one loop head: is_page_parsed, then either the
\* "already parsed" branch or the call of extract_text(page)
CheckPage ==
    /\ pc = "loop"
    /\ page_num \in DOMAIN pages
    /\ checked' = [checked EXCEPT ![page_num] =
                     IF is_page_parsed(parsed_pages, book_name, page_num) THEN "yes" ELSE "no"]
    /\ IF needs_extraction(parsed_pages, book_name, page_num)
       THEN /\ pc' = "x_upload"
            /\ x_caller' = "parser"
            /\ x_file' = pages[page_num]
            /\ task_id' = None
            /\ http' = << >>
            /\ UNCHANGED <<page_num, result>>
       ELSE /\ page_num' = next_page(page_num)
            /\ UNCHANGED <<pc, clientVars>>
    /\ UNCHANGED <<storeVars, temp_pdf, run_book, run_doc, book_name, pages,
                   extracted, stored, outcome, failed_page, twiceVars, auxVars>>

\* the locals of a finished extract_text call go out of scope
ClearClient ==
    /\ x_caller' = None
    /\ x_file' = NoFile
    /\ task_id' = None
    /\ result' = NoResult
    /\ http' = << >>

\* PDFParser.parse_pdf: the statements after extract_text returned
HandleResult ==
    /\ pc = "x_ret"
    /\ x_caller = "parser"
    /\ extracted' = [extracted EXCEPT ![page_num] = result]
    /\ IF result.is_none
       THEN \* result.error on None: AttributeError leaves parse_pdf
            /\ outcome' = "crashed"
            /\ pc' = "done"
            /\ temp_pdf' = None
            /\ UNCHANGED <<parsed_pages, page_num, failed_page, stored>>
       ELSE IF is_fatal(result)
       THEN \* raise LanguageLearningMethodException naming page_num
            /\ outcome' = "fatal"
            /\ failed_page' = page_num
            /\ pc' = "done"
            /\ temp_pdf' = None
            /\ UNCHANGED <<parsed_pages, page_num, stored>>
       ELSE /\ parsed_pages' =
                 IF is_storable(result)
                 THEN store_parsed_page(parsed_pages,
                          ParsedPage(book_name, page_num, result.extracted_text,
                                     result.task_id))
                 ELSE parsed_pages
            /\ stored' = IF is_storable(result) THEN stored \cup {page_num} ELSE stored
            /\ page_num' = next_page(page_num)
            /\ pc' = "loop"
            /\ UNCHANGED <<outcome, failed_page, temp_pdf>>
    /\ first_rows' = IF run_no = 1 /\ pc' = "done" THEN parsed_pages ELSE first_rows
    /\ ClearClient
    /\ UNCHANGED <<books, run_book, run_doc, book_name, pages, checked, run_no,
                   auxVars>>

\* ------------------------------------------------- client: text_extraction_service
nonClientVars == <<storeVars, temp_pdf, runVars, histVars, twiceVars, auxVars>>

\* _process_single_file after a submission answered with status 200: direct
\* text, else a task id to poll, else the function runs off its end
AfterSubmit(r) ==
    IF r.kind = "malformed"
    THEN \* result.get on a non-object: caught by "except Exception"
         /\ result' = ExtractionResult(None, "exception", None)
         /\ pc' = "x_ret"
         /\ UNCHANGED task_id
    ELSE IF has_text(r)
    THEN /\ result' = ExtractionResult(r.text, None, None)
         /\ pc' = "x_ret"
         /\ UNCHANGED task_id
    ELSE IF has_task(r)
    THEN /\ task_id' = r.task_id
         /\ pc' = "x_poll"
         /\ UNCHANGED result
    ELSE /\ result' = NoResult
         /\ pc' = "x_ret"
         /\ UNCHANGED task_id

\* extract_text(file_path, prompt_file=...) called directly on the service:
\* _process_single_file reads the prompt file before any submission
ExtractTextCall(file, prompt_file) ==
    /\ pc = "idle"
    /\ x_caller' = "api"
    /\ x_file' = file
    /\ task_id' = None
    /\ http' = << >>
    /\ IF prompt_file = "missing"
       THEN /\ result' = ExtractionResult(None, "Prompt file not found", None)
            /\ pc' = "x_ret"
       ELSE /\ result' = NoResult
            /\ pc' = "x_upload"
    /\ UNCHANGED nonClientVars

\* the direct caller receives the result
ReturnToCaller ==
    /\ pc = "x_ret"
    /\ x_caller = "api"
    /\ pc' = "idle"
    /\ ClearClient
    /\ UNCHANGED nonClientVars

\* _process_single_file: result = self._upload_file(...)
Upload(resp) ==
    /\ pc = "x_upload"
    /\ http' = Append(http, [ep |-> "upload", resp |-> resp])
    /\ IF is_none_dict(submit_result(resp))
       THEN /\ pc' = "x_request"
            /\ UNCHANGED <<task_id, result>>
       ELSE AfterSubmit(submit_result(resp))
    /\ UNCHANGED <<x_caller, x_file, nonClientVars>>

\* _process_single_file: result = self._request_file(...) after a failed upload
Request(resp) ==
    /\ pc = "x_request"
    /\ http' = Append(http, [ep |-> "request", resp |-> resp])
    /\ IF is_none_dict(submit_result(resp))
       THEN /\ result' = ExtractionResult(None, "Failed to process file", None)
            /\ pc' = "x_ret"
            /\ UNCHANGED task_id
       ELSE AfterSubmit(submit_result(resp))
    /\ UNCHANGED <<x_caller, x_file, nonClientVars>>

\* _get_result: one iteration of the while loop, and the ExtractionResult built
\* from its return value when the loop ends
Poll(resp) ==
    /\ pc = "x_poll"
    /\ polls_again(resp) => Calls(http, "poll") < MaxPolls
    /\ http' = Append(http, [ep |-> "poll", resp |-> resp])
    /\ IF resp.kind = "raise"
       THEN \* requests.get raised, or the body has no 'state': "except Exception"
            /\ result' = ExtractionResult(None, "exception", None)
            /\ pc' = "x_ret"
       ELSE IF polls_again(resp)
       THEN \* time.sleep(1) and poll again
            UNCHANGED <<result, pc>>
       ELSE /\ result' = ExtractionResult(get_result_value(resp), None, task_id)
            /\ pc' = "x_ret"
    /\ UNCHANGED <<x_caller, x_file, task_id, nonClientVars>>

\* the page artifacts a direct caller can pass
Artifacts == {Artifact("temp", d, p) : d \in Docs, p \in {0}}

PromptFiles == {None, "readable", "missing"}

ClientStep ==
    \/ \E resp \in SubmitResponses(x_file.doc) : Upload(resp)
    \/ \E resp \in SubmitResponses(x_file.doc) : Request(resp)
    \/ \E resp \in PollResponses(x_file.doc) : Poll(resp)

\* ------------------------------------------------------------------ specifications
\* repeated runs of the parse_pdf command over the library
Next ==
    \/ \E name \in BookNames \cup {"b0"} : ParsePdfCmd(name)
    \/ CheckPage
    \/ HandleResult
    \/ Finish
    \/ ClientStep

Spec == Init /\ [][Next]_vars

\* the extraction client called directly
NextClient ==
    \/ \E file \in Artifacts, prompt_file \in PromptFiles : ExtractTextCall(file, prompt_file)
    \/ ReturnToCaller
    \/ ClientStep

SpecClient == Init /\ [][NextClient]_vars

\* the parse_pdf command run for the first time on an empty page store
FirstParse(name) ==
    /\ run_no = 0
    /\ pc = "idle"
    /\ StartParse(name)
    /\ run_no' = 1
    /\ UNCHANGED first_rows

\* the parse_pdf command run again on the same book after the first run returned
ReParse ==
    /\ run_no = 1
    /\ pc = "done"
    /\ outcome = "returned"
    /\ StartParse(run_book)
    /\ run_no' = 2
    /\ UNCHANGED first_rows

NextTwice ==
    \/ \E name \in BookNames : FirstParse(name)
    \/ ReParse
    \/ CheckPage
    \/ HandleResult
    \/ Finish
    \/ ClientStep

SpecTwice == Init /\ [][NextTwice]_vars

\* ------------------------------------------------- direct calls of the store
nonStoreVars == <<temp_pdf, pc, runVars, clientVars, histVars, twiceVars, sideVars>>

\* the rows direct callers store
StoreBooks == BookNames

StorePages == 0..MaxStorePage

StoreTexts == OcrTexts("d1")

\* PersistenceService.store_parsed_page(parsed_page)
StoreParsedPageCall(row) ==
    /\ pc = "idle"
    /\ parsed_pages' = store_parsed_page(parsed_pages, row)
    /\ last_store' = [op |-> "store", book |-> row.book_path, page |-> row.page_number,
                      content |-> row.content,
                      before |-> {r.content : r \in RowsOf(parsed_pages, row.book_path,
                                                           row.page_number)},
                      count |-> 0]
    /\ UNCHANGED <<books, nonStoreVars>>

\* PersistenceService.clear_book_pages(book_name)
ClearBookPagesCall(name) ==
    /\ pc = "idle"
    /\ parsed_pages' = clear_book_pages(parsed_pages, name)
    /\ last_store' = [NoStore EXCEPT !.op = "clear", !.book = name]
    /\ UNCHANGED <<books, nonStoreVars>>

\* PersistenceService.delete_book_and_connected_data(book_name)
DeleteBookCall(name) ==
    /\ pc = "idle"
    /\ books' = DeleteBookRows(books, name)
    /\ parsed_pages' = {r \in parsed_pages : r.book_path # name}
    /\ last_store' = [NoStore EXCEPT
                          !.op = "delete", !.book = name,
                          !.before = {r.content : r \in {x \in parsed_pages :
                                                             x.book_path = name}},
                          !.count = Len(SelectSeq(books, LAMBDA b : b.name = name))]
    /\ UNCHANGED nonStoreVars

\* the document held by the file <name>.pdf that `book add` reads
BookFile(name) == IF name = "b1" THEN "d1" ELSE "d2"

\* PersistenceService.add_book(book_path, book_name)
AddBookCall(name, doc) ==
    /\ pc = "idle"
    /\ Len(books) < MaxBooks
    /\ books' = add_book(books, name, doc)
    /\ last_store' = [NoStore EXCEPT !.op = "add", !.book = name]
    /\ UNCHANGED <<parsed_pages, nonStoreVars>>

NextStore ==
    \/ \E b \in StoreBooks, p \in StorePages, c \in StoreTexts :
           StoreParsedPageCall(ParsedPage(b, p, c, None))
    \/ \E b \in StoreBooks : ClearBookPagesCall(b)
    \/ \E b \in StoreBooks : DeleteBookCall(b)
    \/ \E b \in StoreBooks : AddBookCall(b, BookFile(b))

SpecStore == Init /\ [][NextStore]_vars

\* ------------------------------------------------- two runs sharing <tmp>
\* the documents the two calls are given
JobDocs(r) == IF r = 1 THEN {"d1"} ELSE Docs

\* the text the OCR service reads from a page of document doc
JobText(doc) == IF doc = "d1" THEN "d1-v1" ELSE "d2-v1"

\* open(path): the file of the directory with the name of `artifact`, or NoFile
FileAt(dir, artifact) ==
    IF \E f \in dir.files : f.number = artifact.number
    THEN CHOOSE f \in dir.files : f.number = artifact.number
    ELSE NoFile

\* parse_pdf_from_bytes: open(pdf_path, "wb"), f.write(pdf_bytes)
JobWrite(r, doc) ==
    /\ jobs[r].pc = "idle"
    /\ tmp_file' = doc
    /\ jobs' = [jobs EXCEPT ![r].pc = "split", ![r].doc = doc]
    /\ UNCHANGED <<tmp_dir, parsed_pages>>

\* split_pdf: the exists test, rmtree and mkdir of the output directory
JobSplitDir(r) ==
    /\ jobs[r].pc = "split"
    /\ IF tmp_file = Missing
       THEN /\ jobs' = [jobs EXCEPT ![r].pc = "cleanup", ![r].outcome = "FileNotFoundError"]
            /\ UNCHANGED tmp_dir
       ELSE /\ jobs' = [jobs EXCEPT ![r].pc = "write"]
            /\ tmp_dir' = recreate_dir(tmp_dir)
    /\ UNCHANGED <<tmp_file, parsed_pages>>

\* split_pdf: open(pdf_path, "rb") and the loop writing one file per page
JobSplitPages(r) ==
    /\ jobs[r].pc = "write"
    /\ IF tmp_file = Missing
       THEN /\ jobs' = [jobs EXCEPT ![r].pc = "cleanup", ![r].outcome = "Exception"]
            /\ UNCHANGED tmp_dir
       ELSE /\ jobs' = [jobs EXCEPT ![r].pc = "loop",
                                    ![r].pages = split_pdf(TempPdf, tmp_file)]
            /\ tmp_dir' = write_pages(tmp_dir, split_pdf(TempPdf, tmp_file))
    /\ UNCHANGED <<tmp_file, parsed_pages>>

\* parse_pdf: the loop head and is_page_parsed(book_name, page_num)
JobCheck(r) ==
    /\ jobs[r].pc = "loop"
    /\ jobs' = IF jobs[r].page_num \notin DOMAIN jobs[r].pages
               THEN [jobs EXCEPT ![r].pc = "cleanup", ![r].outcome = "returned"]
               ELSE IF needs_extraction(parsed_pages, Stem(TempPdf), jobs[r].page_num)
               THEN [jobs EXCEPT ![r].pc = "extract"]
               ELSE [jobs EXCEPT ![r].page_num = next_page(@)]
    /\ UNCHANGED <<tmp_file, tmp_dir, parsed_pages>>

\* parse_pdf: extract_text(pages[page_num]) reads the file under that name; a
\* file that is gone fails both submissions and ends the run with the fatal
\* error, a file that is there is read and its text, if any, is stored
JobExtract(r, has_text_) ==
    LET file == FileAt(tmp_dir, jobs[r].pages[jobs[r].page_num])
        handed == [page |-> jobs[r].page_num, file |-> file]
    IN  /\ jobs[r].pc = "extract"
        /\ IF file = NoFile
           THEN /\ jobs' = [jobs EXCEPT ![r].pc = "cleanup", ![r].outcome = "fatal",
                                        ![r].handed = handed]
                /\ UNCHANGED parsed_pages
           ELSE /\ jobs' = [jobs EXCEPT ![r].pc = "loop", ![r].handed = handed,
                                        ![r].page_num = next_page(@)]
                /\ parsed_pages' =
                       IF has_text_
                       THEN store_parsed_page(parsed_pages,
                                ParsedPage(Stem(TempPdf), jobs[r].page_num,
                                           JobText(file.doc), None))
                       ELSE parsed_pages
        /\ UNCHANGED <<tmp_file, tmp_dir>>

\* parse_pdf_from_bytes: finally: pdf_path.unlink(), which raises when the file
\* is gone already
JobCleanup(r) ==
    /\ jobs[r].pc = "cleanup"
    /\ tmp_file' = Missing
    /\ jobs' = [jobs EXCEPT ![r].pc = "done",
                            ![r].outcome = IF tmp_file = Missing /\ @ = "returned"
                                           THEN "FileNotFoundError"
                                           ELSE @]
    /\ UNCHANGED <<tmp_dir, parsed_pages>>

NextShared ==
    /\ \E r \in Runs :
           \/ \E doc \in JobDocs(r) : JobWrite(r, doc)
           \/ JobSplitDir(r)
           \/ JobSplitPages(r)
           \/ JobCheck(r)
           \/ \E t \in BOOLEAN : JobExtract(r, t)
           \/ JobCleanup(r)
    /\ UNCHANGED <<books, temp_pdf, pc, runVars, clientVars, histVars, twiceVars,
                   last_store, exerciseVars, raceVars, store_ret, extractVars, rd,
                   splitVars, service_hangs, shown, configVars>>

SpecShared == Init /\ [][NextShared]_vars

\* ------------------------------------------------- config commands
\* the names and configurations the commands are given
LlmNames == {"gpt-4o", "m1", "m2"}

LlmConfigs == {"langchain_openai.ChatOpenAI", "other.Chat"}

\* dict.pop(llm_name)
Pop(config, llm_name) == [n \in DOMAIN config \ {llm_name} |-> config[n]]

\* dict[llm_name] = llm_config
Put(config, llm_name, llm_config) ==
    [n \in DOMAIN config \cup {llm_name} |-> IF n = llm_name THEN llm_config ELSE config[n]]

\* config.add_llm: an existing name is reported and overwritten all the same
AddLlm(llm_name, llm_config) ==
    /\ pc = "idle"
    /\ llms_config' = Put(llms_config, llm_name, llm_config)
    /\ default_llm_name' = IF Cardinality(DOMAIN llms_config') <= 2
                           THEN llm_name
                           ELSE default_llm_name
    /\ UNCHANGED <<factory, notConfigVars>>

\* config.remove_llm
RemoveLlm(llm_name) ==
    /\ pc = "idle"
    /\ llms_config' = IF llm_name \notin DOMAIN llms_config
                      THEN llms_config
                      ELSE Pop(llms_config, llm_name)
    /\ UNCHANGED <<default_llm_name, factory, notConfigVars>>

\* config.set_default_llm
SetDefaultLlm(llm_name) ==
    /\ pc = "idle"
    /\ default_llm_name' = IF llm_name \notin DOMAIN llms_config
                           THEN default_llm_name
                           ELSE llm_name
    /\ UNCHANGED <<llms_config, factory, notConfigVars>>

\* app.get_service_factory(llm_name): llm_name None when the command names no LLM
get_service_factory(config, default_name, llm_name) ==
    LET looked_up == IF Truthy(llm_name) THEN llm_name ELSE default_name
    IN  IF looked_up \in DOMAIN config
        THEN [llm_name |-> llm_name, kind |-> "factory", llm_config |-> config[looked_up]]
        ELSE [llm_name |-> llm_name, kind |-> "ValueError", llm_config |-> None]

GetServiceFactory(llm_name) ==
    /\ pc = "idle"
    /\ factory' = get_service_factory(llms_config, default_llm_name, llm_name)
    /\ UNCHANGED <<llms_config, default_llm_name, notConfigVars>>

NextConfig ==
    \/ \E n \in LlmNames, c \in LlmConfigs : AddLlm(n, c)
    \/ \E n \in LlmNames : RemoveLlm(n)
    \/ \E n \in LlmNames : SetDefaultLlm(n)
    \/ \E n \in LlmNames \cup {None} : GetServiceFactory(n)

SpecConfig == Init /\ [][NextConfig]_vars

\* ------------------------------------------------- book show-pages
\* the book whose pages are shown, and the largest option value tried
ShowBook == "b1"

ShowOptions == 0..(MaxStorePage + 2)

\* book.show_pages: what the command does with the book's listing
show_pages(book_rows, rows, name, start_page_num, number_of_pages) ==
    LET book_pages == get_all_parsed_pages(rows, name)
        n == Len(book_pages)
        limit == IF n < start_page_num + number_of_pages
                 THEN n - start_page_num
                 ELSE number_of_pages
        stop == IF start_page_num + limit - 1 < n THEN start_page_num + limit - 1 ELSE n
        call == [NotShown EXCEPT !.start = start_page_num, !.number = number_of_pages,
                                 !.listing = book_pages]
    IN  IF get_book(book_rows, name) = NoBook
        THEN [call EXCEPT !.kind = "ValueError"]
        ELSE IF n <= 0
        THEN [call EXCEPT !.kind = "no-pages"]
        ELSE IF number_of_pages < 1
        THEN [call EXCEPT !.kind = "ValueError"]
        ELSE IF start_page_num <= 0 \/ start_page_num > n
        THEN [call EXCEPT !.kind = "ValueError"]
        ELSE [call EXCEPT !.kind = "shown",
                          !.pages = SubSeq(book_pages, start_page_num, stop)]

\* book show-pages <name> --start-page-num s --number-of-pages k
ShowPagesCmd(name, start_page_num, number_of_pages) ==
    /\ pc = "idle"
    /\ shown' = show_pages(books, parsed_pages, name, start_page_num, number_of_pages)
    /\ UNCHANGED <<storeVars, temp_pdf, pc, runVars, clientVars, histVars, twiceVars,
                   last_store, exerciseVars, raceVars, store_ret, extractVars, rd,
                   splitVars, service_hangs, configVars, jobVars>>

NextShow ==
    \/ \E p \in StorePages, c \in StoreTexts :
           StoreParsedPageCall(ParsedPage(ShowBook, p, c, None))
    \/ \E s \in ShowOptions, k \in ShowOptions : ShowPagesCmd(ShowBook, s, k)

SpecShow == Init /\ [][NextShow]_vars

\* ------------------------------------------------- direct calls of the exercise store
\* store_exercise(exercise) up to cursor.lastrowid: the connection opens a
\* transaction and inserts the exercise row
StoreExerciseBegin(exercise) ==
    /\ pc = "idle"
    /\ ~tx.active
    /\ Len(exercises) < MaxExercises
    /\ LET exercise_id == lastrowid(Len(exercises))
       IN  tx' = [active |-> TRUE, exercise |-> exercise, exercise_id |-> exercise_id,
                  ex_rows |-> <<ExerciseRow(exercise_id, exercise)>>, q_rows |-> {},
                  i |-> 0]
    /\ ex_ret' = NoRet
    /\ UNCHANGED <<exercises, exercise_questions, given>>

\* store_exercise: one iteration of `for i, question in enumerate(...)`
StoreExerciseQuestion ==
    /\ tx.active
    /\ tx.i < Len(tx.exercise.questions)
    /\ LET id == lastrowid(Cardinality(exercise_questions) + Cardinality(tx.q_rows))
       IN  tx' = [tx EXCEPT !.q_rows = @ \cup {QuestionRow(id, tx.exercise_id,
                                                           tx.exercise.questions[tx.i + 1],
                                                           tx.i)},
                            !.i = @ + 1]
    /\ UNCHANGED <<exercises, exercise_questions, ex_ret, given>>

\* store_exercise: conn.commit() and return exercise_id
StoreExerciseCommit ==
    /\ tx.active
    /\ tx.i = Len(tx.exercise.questions)
    /\ exercises' = exercises \o tx.ex_rows
    /\ exercise_questions' = exercise_questions \cup tx.q_rows
    /\ ex_ret' = [kind |-> "id", id |-> tx.exercise_id, error |-> None]
    /\ given' = Append(given, [id |-> tx.exercise_id, exercise |-> tx.exercise])
    /\ tx' = NoTx

\* store_exercise: a statement or the commit raises sqlite3.Error; leaving the
\* `with` block rolls the transaction back and the exception reaches the caller
StoreExerciseError ==
    /\ tx.active
    /\ tx' = NoTx
    /\ ex_ret' = [kind |-> "raised", id |-> tx.exercise_id, error |-> "sqlite3.Error"]
    /\ UNCHANGED <<exercises, exercise_questions, given>>

StoreExerciseStep ==
    /\ \/ StoreExerciseQuestion
       \/ StoreExerciseCommit
       \/ StoreExerciseError
    /\ UNCHANGED <<storeVars, temp_pdf, pc, runVars, clientVars, histVars, twiceVars,
                   last_store, raceVars, store_ret, extractVars, rd, splitVars, lateVars>>

Questions == {"Q1", "Q2"}

\* the question lists of at most MaxQuestions questions
QuestionLists == UNION {[1..n -> Questions] : n \in 0..MaxQuestions}

\* the pages the stored exercises belong to
ExercisePages == {0, 1}

\* the exercises direct callers store
ExerciseInputs ==
    {StoredExercise(0, "b1", p, "t", "i", q) : p \in ExercisePages, q \in QuestionLists}
        \cup {StoredExercise(0, "b2", 0, "t", "i", <<"Q1">>)}

\* store_exercise: connecting or the INSERT INTO exercises raises sqlite3.Error:
\* no row is inserted, no identifier assigned, and the exception reaches the caller
StoreExerciseRefused(exercise) ==
    /\ pc = "idle"
    /\ ~tx.active
    /\ ex_ret' = [kind |-> "raised", id |-> 0, error |-> "sqlite3.Error"]
    /\ UNCHANGED <<exercises, exercise_questions, tx, given>>
    /\ UNCHANGED <<storeVars, temp_pdf, pc, runVars, clientVars, histVars, twiceVars,
                   last_store, raceVars, store_ret, extractVars, rd, splitVars, lateVars>>

StoreExerciseCall(exercise) ==
    /\ StoreExerciseBegin(exercise)
    /\ UNCHANGED <<storeVars, temp_pdf, pc, runVars, clientVars, histVars, twiceVars,
                   last_store, raceVars, store_ret, extractVars, rd, splitVars, lateVars>>

NextExercise ==
    \/ \E exercise \in ExerciseInputs : StoreExerciseCall(exercise)
    \/ \E exercise \in ExerciseInputs : StoreExerciseRefused(exercise)
    \/ StoreExerciseStep

SpecExercise == Init /\ [][NextExercise]_vars

\* ------------------------------------------------- two parse_pdf runs at once
\* the document both runs parse
RaceDoc == "d2"

RacePages == split_pdf(TempPdf, RaceDoc)

\* the values extract_text can return for a page of doc: text from the
\* upload, the polled result value, an error, or None
ExtractOutcomes(doc) ==
    {ExtractionResult(t, None, None) : t \in OcrTexts(doc)}
        \cup {ExtractionResult(v, None, k) : v \in {None, ""} \cup OcrTexts(doc),
                                             k \in TaskIds}
        \cup {ExtractionResult(None, "Failed to process file", None), NoResult}

\* parse_pdf up to the loop: book_name and pages are taken
RaceStart(r) ==
    /\ race[r].pc = "idle"
    /\ race' = [race EXCEPT ![r].pc = "loop"]
    /\ UNCHANGED <<parsed_pages, race_calls>>

\* the loop head and is_page_parsed(book_name, page_num)
RaceCheck(r) ==
    /\ race[r].pc = "loop"
    /\ race' = IF race[r].page_num \notin DOMAIN RacePages
               THEN [race EXCEPT ![r].pc = "done"]
               ELSE IF needs_extraction(parsed_pages, Stem(TempPdf), race[r].page_num)
               THEN [race EXCEPT ![r].pc = "extract"]
               ELSE [race EXCEPT ![r].page_num = @ + 1]
    /\ UNCHANGED <<parsed_pages, race_calls>>

\* extract_text(page) returns res
RaceExtract(r, res) ==
    /\ race[r].pc = "extract"
    /\ race' = [race EXCEPT ![r].pc = "handle", ![r].result = res]
    /\ race_calls' = [race_calls EXCEPT ![race[r].page_num] =
                          IF res.is_none THEN @ ELSE @ \cup {res.extracted_text}]
    /\ UNCHANGED parsed_pages

\* the rest of the loop body: error test, text test, store_parsed_page
RaceHandle(r) ==
    /\ race[r].pc = "handle"
    /\ IF race[r].result.is_none \/ is_fatal(race[r].result)
       THEN /\ race' = [race EXCEPT ![r].pc = "done", ![r].result = NoResult]
            /\ UNCHANGED parsed_pages
       ELSE /\ parsed_pages' =
                 IF is_storable(race[r].result)
                 THEN store_parsed_page(parsed_pages,
                          ParsedPage(Stem(TempPdf), race[r].page_num,
                                     race[r].result.extracted_text,
                                     race[r].result.task_id))
                 ELSE parsed_pages
            /\ race' = [race EXCEPT ![r].pc = "loop", ![r].page_num = @ + 1,
                                    ![r].result = NoResult]
    /\ UNCHANGED race_calls

NextRace ==
    /\ \E r \in Runs :
           \/ RaceStart(r)
           \/ RaceCheck(r)
           \/ \E res \in ExtractOutcomes(RaceDoc) : RaceExtract(r, res)
           \/ RaceHandle(r)
    /\ UNCHANGED <<books, temp_pdf, pc, runVars, clientVars, histVars, twiceVars,
                   last_store, exerciseVars, store_ret, extractVars, rd, splitVars,
                   lateVars>>

SpecRace == Init /\ [][NextRace]_vars

\* ------------------------------------------------- store calls that can fail
\* where sqlite3 raises sqlite3.Error during a store call, if anywhere
Faults == {"none", "connect", "execute", "commit"}

\* store_parsed_page letting the sqlite3.Error reach its caller
store_parsed_page_try_raising(rows, parsed_page, fault) ==
    IF fault = "none"
    THEN [rows |-> store_parsed_page(rows, parsed_page), ret |-> "True"]
    ELSE [rows |-> rows, ret |-> "raised"]

\* PersistenceService.store_parsed_page with its try/except: the table and the
\* return value; an error inside the `with` block rolls the write back
store_parsed_page_try(rows, parsed_page, fault) ==
    IF fault = "none"
    THEN [rows |-> store_parsed_page(rows, parsed_page), ret |-> "True"]
    ELSE [rows |-> rows, ret |-> "False"]

\* PersistenceService.clear_book_pages with its try/except
clear_book_pages_try(rows, book, fault) ==
    IF fault = "none"
    THEN [rows |-> clear_book_pages(rows, book), ret |-> "True"]
    ELSE [rows |-> rows, ret |-> "False"]

StoreParsedPageTry(row, fault) ==
    /\ pc = "idle"
    /\ fault = "none" => ~tx.active
    /\ parsed_pages' = store_parsed_page_try(parsed_pages, row, fault).rows
    /\ store_ret' = store_parsed_page_try(parsed_pages, row, fault).ret
    /\ last_store' = [NoStore EXCEPT !.op = "try-store", !.book = row.book_path,
                                     !.page = row.page_number, !.content = row.content]
    /\ UNCHANGED <<books, temp_pdf, pc, runVars, clientVars, histVars, twiceVars,
                   exerciseVars, raceVars, extractVars, rd, splitVars, lateVars>>

ClearBookPagesTry(name, fault) ==
    /\ pc = "idle"
    /\ fault = "none" => ~tx.active
    /\ parsed_pages' = clear_book_pages_try(parsed_pages, name, fault).rows
    /\ store_ret' = clear_book_pages_try(parsed_pages, name, fault).ret
    /\ last_store' = [NoStore EXCEPT !.op = "try-clear", !.book = name,
                          !.before = {r.content : r \in {x \in parsed_pages :
                                                             x.book_path = name}}]
    /\ UNCHANGED <<books, temp_pdf, pc, runVars, clientVars, histVars, twiceVars,
                   exerciseVars, raceVars, extractVars, rd, splitVars, lateVars>>

\* the rows, books and exercises of the calls that can fail
DataPages == {0}

DataTexts == {"d1-v1"}

DataExercises == {StoredExercise(0, b, 0, "t", "i", <<"Q1">>) : b \in StoreBooks}

NextData ==
    \/ \E b \in StoreBooks, p \in DataPages, c \in DataTexts, f \in Faults :
           StoreParsedPageTry(ParsedPage(b, p, c, None), f)
    \/ \E b \in StoreBooks, f \in Faults : ClearBookPagesTry(b, f)
    \/ \E b \in StoreBooks : ~tx.active /\ DeleteBookCall(b)
    \/ \E b \in StoreBooks : ~tx.active /\ AddBookCall(b, BookFile(b))
    \/ \E exercise \in DataExercises : StoreExerciseCall(exercise)
    \/ StoreExerciseStep

SpecData == Init /\ [][NextData]_vars

\* ------------------------------------------------- exercise_extraction_service
\* an ExtractedExercise of the LLM's structured answer
ExtractedExercise(title, questions) ==
    [title |-> title, instructions |-> "i", questions |-> questions]

\* the answers of _extract_exercises_from_page: the exercises parsed from the
\* LLM response, or [] when reading the response raises
DetectedLists ==
    {<< >>,
     <<ExtractedExercise("t1", <<"Q1", "Q2">>)>>,
     <<ExtractedExercise("t1", <<"Q1", "Q2">>), ExtractedExercise("t2", <<"Q2">>)>>}

\* extract_exercises: "if not page or not page.content.strip()" is false
has_content(page) == page # NoRow /\ page.content \notin {"", " "}

\* _save_exercises: one file exercise_page_<page>_exercise_<i>.md per exercise,
\* written over a file of the same name
save_exercises(files, page, found, book_path) ==
    {f \in files : ~(/\ f.book_name = book_path
                     /\ f.page_num = page
                     /\ f.i \in DOMAIN found)}
        \cup {[book_name |-> book_path, page_num |-> page, i |-> i,
               exercise |-> found[i]] : i \in DOMAIN found}

\* ExerciseExtractionService.extract_exercises(book_name, start_page, end_page)
\* up to its loop
ExtractExercisesCmd(book, start_page, end_page) ==
    /\ pc = "idle"
    /\ xe.pc = "idle"
    /\ xe' = [pc |-> "loop", book_name |-> book, page_num |-> start_page,
              end_page |-> end_page]
    /\ UNCHANGED <<exercise_files, detected>>

\* one iteration of `for page_num in range(start_page, end_page + 1)`, the LLM
\* answering `found`, or the end of the loop
ExtractExercisesPage(found) ==
    /\ xe.pc = "loop"
    /\ IF xe.page_num > xe.end_page
       THEN /\ xe' = NoExtract
            /\ UNCHANGED <<exercise_files, detected>>
       ELSE LET page == get_parsed_page(parsed_pages, xe.book_name, xe.page_num)
            IN  /\ xe' = [xe EXCEPT !.page_num = @ + 1]
                /\ IF has_content(page) /\ found # << >>
                   THEN /\ exercise_files' = save_exercises(exercise_files, xe.page_num,
                                                            found, xe.book_name)
                        /\ detected' = {d \in detected : ~(/\ d.book_name = xe.book_name
                                                           /\ d.page_num = xe.page_num)}
                               \cup {[book_name |-> xe.book_name,
                                      page_num |-> xe.page_num, exercises |-> found]}
                   ELSE UNCHANGED <<exercise_files, detected>>

\* the pages extract_exercises reads
ExtractTexts == {"d1-v1", " "}

NextExtract ==
    \/ \E p \in StorePages, c \in ExtractTexts :
           StoreParsedPageCall(ParsedPage("b1", p, c, None))
    \/ /\ \E start_page, end_page \in StorePages :
              ExtractExercisesCmd("b1", start_page, end_page)
       /\ UNCHANGED <<storeVars, temp_pdf, pc, runVars, clientVars, histVars, twiceVars,
                      last_store, exerciseVars, raceVars, store_ret, rd, splitVars,
                      lateVars>>
    \/ /\ \E found \in DetectedLists : ExtractExercisesPage(found)
       /\ UNCHANGED <<storeVars, temp_pdf, pc, runVars, clientVars, histVars, twiceVars,
                      last_store, exerciseVars, raceVars, store_ret, rd, splitVars,
                      lateVars>>

SpecExtract == Init /\ [][NextExtract]_vars

\* ------------------------------------------------- get_exercises beside store_exercise
\* get_exercises(book_path, page_number): the SELECT on exercises and fetchall()
GetExercisesBegin(book_path, page_number) ==
    /\ rd.pc # "questions"
    /\ rd' = [pc |-> "questions",
              rows |-> select_exercises(
                           read_committed(exercises, exercise_questions, tx).exercises,
                           book_path, page_number),
              i |-> 1, out |-> << >>]

\* get_exercises: one iteration of `for row in cursor.fetchall()`
GetExercisesQuestions ==
    /\ rd.pc = "questions"
    /\ rd.i <= Len(rd.rows)
    /\ LET row == rd.rows[rd.i]
           q_rows == read_committed(exercises, exercise_questions, tx).exercise_questions
       IN  rd' = [rd EXCEPT
                     !.i = @ + 1,
                     !.out = Append(@, StoredExercise(row.id, row.book_path,
                                                      row.page_number, row.title,
                                                      row.instructions,
                                                      questions_of(q_rows, row.id)))]

\* get_exercises: return exercises
GetExercisesReturn ==
    /\ rd.pc = "questions"
    /\ rd.i > Len(rd.rows)
    /\ rd' = [rd EXCEPT !.pc = "returned"]

\* the exercises stored while a reader runs
AtomicExercises ==
    {StoredExercise(0, "b1", 0, "t", "i", <<"Q1", "Q2">>),
     StoredExercise(0, "b1", 1, "t", "i", <<"Q2">>)}

NextAtomic ==
    \/ \E exercise \in AtomicExercises : StoreExerciseCall(exercise)
    \/ StoreExerciseStep
    \/ /\ \/ \E page_number \in {NoPage, 0} : GetExercisesBegin("b1", page_number)
          \/ GetExercisesQuestions
          \/ GetExercisesReturn
       /\ UNCHANGED <<storeVars, temp_pdf, pc, runVars, clientVars, histVars, twiceVars,
                      last_store, exerciseVars, raceVars, store_ret, extractVars,
                      splitVars, lateVars>>

SpecAtomic == Init /\ [][NextAtomic]_vars

\* ------------------------------------------------- splitter and parse_pdf on a path
\* the user puts a document under the name a.pdf
PutFile(doc) ==
    /\ pc = "idle"
    /\ pdf_file # doc
    /\ pdf_file' = doc
    /\ UNCHANGED <<output_dir, split_ret>>

\* PDFSplitter.split_pdf(pdf_path) called on its own
SplitCall(pdf_path) ==
    /\ pc = "idle"
    /\ LET ret == split_pdf_call(pdf_file, output_dir, pdf_path)
       IN  /\ output_dir' = ret.dir
           /\ split_ret' = [kind |-> ret.kind, files |-> ret.files, doc |-> pdf_file,
                            dir_before |-> output_dir]
    /\ UNCHANGED pdf_file

\* PDFParser.parse_pdf(pdf_path) up to the first loop iteration: book_name,
\* then split_pdf, whose exception leaves parse_pdf
ParsePdfPath(pdf_path) ==
    /\ pc \in {"idle", "done"}
    /\ run_book' = None
    /\ run_doc' = pdf_file
    /\ book_name' = Stem(pdf_path)
    /\ checked' = [p \in AllPages |-> "unchecked"]
    /\ extracted' = [p \in AllPages |-> NotCalled]
    /\ stored' = {}
    /\ failed_page' = -1
    /\ page_num' = 0
    /\ LET ret == split_pdf_call(pdf_file, output_dir, pdf_path)
       IN  /\ output_dir' = ret.dir
           /\ split_ret' = [kind |-> ret.kind, files |-> ret.files, doc |-> pdf_file,
                            dir_before |-> output_dir]
           /\ pages' = ret.files
           /\ pc' = IF ret.kind = "ok" THEN "loop" ELSE "done"
           /\ outcome' = IF ret.kind = "ok" THEN "running" ELSE "split-error"
    /\ UNCHANGED <<storeVars, temp_pdf, clientVars, twiceVars, last_store, exerciseVars,
                   raceVars, store_ret, extractVars, rd, pdf_file, lateVars>>

NextSplit ==
    \/ /\ \/ \E doc \in Docs \cup {Missing, Corrupt} : PutFile(doc)
          \/ SplitCall(InputPdf)
       /\ UNCHANGED <<storeVars, temp_pdf, pc, runVars, clientVars, histVars, twiceVars,
                      last_store, exerciseVars, raceVars, store_ret, extractVars, rd,
                      lateVars>>
    \/ ParsePdfPath(InputPdf)
    \/ CheckPage
    \/ HandleResult
    \/ Finish
    \/ ClientStep

SpecSplit == Init /\ [][NextSplit]_vars

\* ------------------------------------------------- a run whose store can fail
\* the book parsed while the store may fail
FaultBook == "b1"

\* PDFParser.parse_pdf after extract_text returned text, when store_parsed_page
\* hits sqlite3.Error: it returns False, parse_pdf drops the value and goes on
HandleResultStoreFails ==
    /\ pc = "x_ret"
    /\ x_caller = "parser"
    /\ ~result.is_none
    /\ ~is_fatal(result)
    /\ is_storable(result)
    /\ extracted' = [extracted EXCEPT ![page_num] = result]
    /\ parsed_pages' = store_parsed_page_try(parsed_pages,
                           ParsedPage(book_name, page_num, result.extracted_text,
                                      result.task_id), "execute").rows
    /\ stored' = stored \cup {page_num}
    /\ page_num' = next_page(page_num)
    /\ pc' = "loop"
    /\ ClearClient
    /\ UNCHANGED <<books, temp_pdf, run_book, run_doc, book_name, pages, checked,
                   outcome, failed_page, twiceVars, auxVars>>

NextFault ==
    \/ ParsePdfCmd(FaultBook)
    \/ CheckPage
    \/ HandleResult
    \/ HandleResultStoreFails
    \/ Finish
    \/ ClientStep

SpecFault == Init /\ [][NextFault]_vars

\* ------------------------------------------------- clearing between two runs
\* the book that is parsed, cleared and parsed again
ClearBook == "b1"

\* PersistenceService.clear_book_pages(book_name), called once the first run
\* has ended (book clear-pages)
ClearBookPagesAfterRun(name) ==
    /\ pc = "done"
    /\ run_no = 1
    /\ last_store.op # "clear"
    /\ parsed_pages' = clear_book_pages_try(parsed_pages, name, "none").rows
    /\ store_ret' = clear_book_pages_try(parsed_pages, name, "none").ret
    /\ last_store' = [NoStore EXCEPT !.op = "clear", !.book = name,
                          !.before = {r.content : r \in {x \in parsed_pages :
                                                             x.book_path = name}}]
    /\ UNCHANGED <<books, temp_pdf, pc, runVars, clientVars, histVars, twiceVars,
                   exerciseVars, raceVars, extractVars, rd, splitVars, lateVars>>

NextClear ==
    \/ FirstParse(ClearBook)
    \/ ClearBookPagesAfterRun(ClearBook)
    \/ ReParse
    \/ CheckPage
    \/ HandleResult
    \/ Finish
    \/ ClientStep

SpecClear == Init /\ [][NextClear]_vars

\* ------------------------------------------------- a run against a service that may hang
\* the document of the runs whose termination is examined
LiveBook == "b2"

\* the OCR service stops finishing tasks: from now on every poll answers PENDING
ServiceHangs ==
    /\ pc \in {"idle", "done"}
    /\ ~service_hangs
    /\ service_hangs' = TRUE
    /\ UNCHANGED <<storeVars, temp_pdf, pc, runVars, clientVars, histVars, twiceVars,
                   last_store, exerciseVars, raceVars, store_ret, extractVars, rd,
                   splitVars, moreVars>>

\* _get_result: one iteration of the while loop against the service
LivePoll(resp) ==
    /\ service_hangs => (resp.kind = "json" /\ resp.state = "PENDING")
    /\ Poll(resp)

\* _get_result: an iteration after the MaxPolls-th that is answered PENDING:
\* sleep and poll again (the trace keeps the first MaxPolls polls)
PollBeyond ==
    /\ pc = "x_poll"
    /\ Calls(http, "poll") >= MaxPolls
    /\ UNCHANGED vars

\* the steps the running command takes by itself
ProgramStep ==
    \/ CheckPage
    \/ HandleResult
    \/ Finish
    \/ \E resp \in SubmitResponses(x_file.doc) : Upload(resp)
    \/ \E resp \in SubmitResponses(x_file.doc) : Request(resp)
    \/ \E resp \in PollResponses(x_file.doc) : LivePoll(resp)

NextLive ==
    \/ ParsePdfCmd(LiveBook)
    \/ ServiceHangs
    \/ PollBeyond
    \/ ProgramStep

\* the process keeps running and every HTTP call is answered; a service that
\* has not hung answers a poll with a terminal state after at most MaxPolls polls
SpecLive == Init /\ [][NextLive]_vars /\ WF_vars(ProgramStep)

\* ================================================================== claims
InClient == pc \in {"x_upload", "x_request", "x_poll", "x_ret"}

\* extract_text returned non-empty text and no error for page p in this run
GotText(p) ==
    /\ ~extracted[p].is_none
    /\ ~Truthy(extracted[p].error)
    /\ Truthy(extracted[p].extracted_text)

\* extract_text reported an error for page p in this run
GotError(p) == ~extracted[p].is_none /\ Truthy(extracted[p].error)

\* the last HTTP call of the current extract_text call was a poll answering `state`
LastPoll(state) ==
    /\ Len(http) > 0
    /\ http[Len(http)].ep = "poll"
    /\ http[Len(http)].resp.kind = "json"
    /\ http[Len(http)].resp.state = state

\* C1: a run of the parse_pdf command on stored book B keys its rows by B: once
\* the run has returned, get_parsed_page(B, i) holds the text extracted for page
\* i, and a page is reported as already parsed only by a row read from B's own
\* document, never by a row an earlier run wrote for another book.
CE_C1 ==
    /\ outcome = "returned" =>
          \A p \in DOMAIN pages :
              GotText(p) =>
                  get_parsed_page(parsed_pages, run_book, p).content
                      = extracted[p].extracted_text
    /\ outcome \in {"running", "returned"} =>
          \A p \in DOMAIN pages :
              checked[p] = "yes" =>
                  \A r \in RowsOf(parsed_pages, book_name, p) : TextDoc(r.content) = run_doc

\* C2: within a run, extract_text is entered for page i only after
\* is_page_parsed(book, i) was asked, and never for a page for which it
\* answered true.
Thm_C2 ==
    /\ (InClient /\ x_caller = "parser") => checked[page_num] = "no"
    /\ \A p \in AllPages : extracted[p] # NotCalled => checked[p] = "no"
    /\ \A p \in AllPages : checked[p] = "yes" => extracted[p] = NotCalled

\* a run that skipped an already parsed page and is extracting a later one
Wit_C2 ==
    /\ pc = "x_upload"
    /\ x_caller = "parser"
    /\ checked[page_num] = "no"
    /\ \E p \in AllPages : checked[p] = "yes"

\* C3 (as stated): after a first run returned, a second run on the same document
\* makes no extraction call for a page already stored and leaves the set of
\* ParsedPage rows exactly as the first run left it.
CE_C3 ==
    run_no = 2 =>
        /\ parsed_pages = first_rows
        /\ \A p \in AllPages :
               RowsOf(first_rows, book_name, p) # {} =>
                   /\ extracted[p] = NotCalled
                   /\ ~(InClient /\ page_num = p)

\* C3 (amended): the second run makes no extraction call for a page already
\* stored and leaves every row of the first run as it was; the rows it adds are
\* rows of pages the first run left without a row.
Thm_C3 ==
    run_no = 2 =>
        /\ first_rows \subseteq parsed_pages
        /\ \A r \in parsed_pages \ first_rows :
               RowsOf(first_rows, r.book_path, r.page_number) = {}
        /\ \A p \in AllPages :
               RowsOf(first_rows, book_name, p) # {} =>
                   /\ extracted[p] = NotCalled
                   /\ ~(InClient /\ page_num = p)

\* a second run that returned after skipping a stored page and adding a row
Wit_C3 ==
    /\ run_no = 2
    /\ outcome = "returned"
    /\ \E p \in AllPages : checked[p] = "yes"
    /\ parsed_pages # first_rows

CE_C5 ==
    [][(pc = "x_ret" /\ x_caller = "parser" /\ LastPoll("FAILURE")) =>
           (pc' = "done" /\ outcome' = "fatal" /\ failed_page' = page_num)]_vars

\* the ExtractionResult has exactly one of extracted_text and error set
ExactlyOne(res) ==
    /\ ~res.is_none
    /\ \/ (Truthy(res.extracted_text) /\ res.error = None)
       \/ (Truthy(res.error) /\ res.extracted_text = None)

\* C6: every value extract_text returns for a page artifact is an
\* ExtractionResult with exactly one of the two outcomes set: non-empty text and
\* no error, or an error and no text.
CE_C6 == pc = "x_ret" => ExactlyOne(result)

\* C7: a poll answering SUCCESS makes extract_text return the task's result
\* text; a poll answering FAILURE makes it return a result whose error is set.
CE_C7 ==
    pc = "x_ret" =>
        /\ LastPoll("SUCCESS") =>
               (~result.is_none /\ result.extracted_text = http[Len(http)].resp.result)
        /\ LastPoll("FAILURE") => (~result.is_none /\ Truthy(result.error))

\* the upload/request protocol of one finished extract_text call
Protocol ==
    /\ Calls(http, "upload") = 1
    /\ http[1].ep = "upload"
    /\ Calls(http, "request") <= 1
    /\ Calls(http, "request") = 1 <=> http[1].resp.kind = "fail"
    /\ Calls(http, "request") = 1 => http[2].ep = "request"
    /\ (Calls(http, "request") = 1 /\ http[2].resp.kind = "fail") =>
           /\ Len(http) = 2
           /\ ~result.is_none
           /\ Truthy(result.error)
           /\ ~Truthy(result.extracted_text)

\* the call ended on an unreadable prompt file, before any submission
PromptFileMissing ==
    /\ http = << >>
    /\ result = ExtractionResult(None, "Prompt file not found", None)

Accepted == {i \in 1..Len(http) : http[i].ep \in {"upload", "request"} /\ http[i].resp.kind = "json"}

\* a response body with a task id and no text
OnlyTask(body) == ~Truthy(body.text) /\ Truthy(body.task_id)

\* the poll answers before the last one were all non-terminal
PolledUntilLast ==
    \A i \in 1..(Len(http) - 1) : http[i].ep = "poll" =>
        (http[i].resp.kind = "json" /\ http[i].resp.state = "PENDING")

\* C9 (as stated): a submission answered with text makes extract_text return
\* that text without a poll; one answered with only a task_id makes it poll until
\* a poll answers SUCCESS or FAILURE, and return only then.
CE_C9 ==
    pc = "x_ret" =>
        \A i \in Accepted :
            /\ Truthy(http[i].resp.text) =>
                   (Calls(http, "poll") = 0 /\ result.extracted_text = http[i].resp.text)
            /\ (OnlyTask(http[i].resp)) =>
                   /\ Calls(http, "poll") >= 1
                   /\ PolledUntilLast
                   /\ (LastPoll("SUCCESS") \/ LastPoll("FAILURE"))

\* C9 (amended): with only a task_id the call returns after the first poll that
\* answers SUCCESS or FAILURE, answers with a status other than 200, or raises.
Thm_C9 ==
    /\ pc = "x_poll" => \E i \in Accepted : OnlyTask(http[i].resp)
    /\ pc = "x_ret" =>
        \A i \in Accepted :
            /\ Truthy(http[i].resp.text) =>
                   (Calls(http, "poll") = 0 /\ result.extracted_text = http[i].resp.text)
            /\ (OnlyTask(http[i].resp)) =>
                   /\ Calls(http, "poll") >= 1
                   /\ PolledUntilLast
                   /\ \/ LastPoll("SUCCESS")
                      \/ LastPoll("FAILURE")
                      \/ http[Len(http)].resp.kind \in {"non200", "raise"}

\* a call that polled more than once and returned on SUCCESS
Wit_C9 ==
    /\ pc = "x_ret"
    /\ Calls(http, "poll") >= 2
    /\ LastPoll("SUCCESS")
    /\ Truthy(result.extracted_text)

\* at most one row per (book_path, page_number)
UniqueKey ==
    \A r1 \in parsed_pages, r2 \in parsed_pages :
        (r1.book_path = r2.book_path /\ r1.page_number = r2.page_number) => r1 = r2

\* after store_parsed_page the key holds exactly the row just stored
LastStoreHeld ==
    last_store.op = "store" =>
        RowsOf(parsed_pages, last_store.book, last_store.page)
            = {ParsedPage(last_store.book, last_store.page, last_store.content, None)}

\* store_parsed_page leaves the rows of every other key as they were
OtherKeysKept ==
    \A b \in StoreBooks, p \in StorePages, c \in StoreTexts :
        StoreParsedPageCall(ParsedPage(b, p, c, None)) =>
            \A r \in parsed_pages \cup parsed_pages' :
                (r.book_path # b \/ r.page_number # p) =>
                    (r \in parsed_pages <=> r \in parsed_pages')

\* C10: after any sequence of store operations there is at most one ParsedPage
\* row per (book, page number); store_parsed_page on a key that has a row
\* replaces it, leaving one row with the new content, and changes no other key.
Thm_C10 == [](UniqueKey /\ LastStoreHeld) /\ [][OtherKeysKept]_vars

\* a key stored a second time with different content, beside a row of another key
Wit_C10 ==
    /\ last_store.op = "store"
    /\ last_store.before # {}
    /\ last_store.content \notin last_store.before
    /\ Cardinality(parsed_pages) >= 2

\* the exercises get_exercises returns for stored call k under page filter f
ReturnedFor(k, f) ==
    LET res == get_exercises(exercises, exercise_questions,
                             given[k].exercise.book_path, f)
    IN  {j \in DOMAIN res : res[j].id = given[k].id}

\* C11: whatever was stored before or after, get_exercises for the book of a
\* stored exercise, with its page as filter or with no filter, returns that
\* exercise once, with the questions it was stored with in the same order
Thm_C11 ==
    \A k \in DOMAIN given : \A f \in {NoPage, given[k].exercise.page_number} :
        LET res == get_exercises(exercises, exercise_questions,
                                 given[k].exercise.book_path, f)
        IN  /\ Cardinality(ReturnedFor(k, f)) = 1
            /\ \A j \in ReturnedFor(k, f) :
                   /\ res[j].questions = given[k].exercise.questions
                   /\ res[j].page_number = given[k].exercise.page_number
                   /\ res[j].title = given[k].exercise.title

\* an exercise with two different questions, one with a repeated question and
\* one with none are stored for the same book
Wit_C11 ==
    /\ ~tx.active
    /\ \E j, k \in DOMAIN given :
           /\ j < k
           /\ given[j].exercise.book_path = given[k].exercise.book_path
           /\ given[j].exercise.questions = <<"Q2", "Q1">>
           /\ given[k].exercise.questions \in {<<"Q1", "Q1">>, << >>}

\* extract_text reported no error and no text for page p in this run
EmptySuccess(p) ==
    /\ ~extracted[p].is_none
    /\ ~Truthy(extracted[p].error)
    /\ ~Truthy(extracted[p].extracted_text)

Thm_C13 ==
    /\ UniqueKey
    /\ \A row \in parsed_pages :
           /\ row.book_path = Stem(TempPdf)
           /\ row.content \in race_calls[row.page_number]

\* both runs extracted page 0, got different texts, and have finished
Wit_C13 ==
    /\ \A r \in Runs : race[r].pc = "done"
    /\ race_calls[0] = OcrTexts(RaceDoc)
    /\ RowsOf(parsed_pages, Stem(TempPdf), 0) # {}

\* delete_book_and_connected_data(n) removes every book row and page row of n
\* and nothing else
DeleteFrame ==
    \A n \in StoreBooks : DeleteBookCall(n) =>
        /\ get_book(books', n) = NoBook
        /\ \A i \in DOMAIN list_book_names(books') : list_book_names(books')[i] # n
        /\ \A r \in parsed_pages' : r.book_path # n
        /\ SelectSeq(books', LAMBDA b : b.name # n)
               = SelectSeq(books, LAMBDA b : b.name # n)
        /\ \A r \in parsed_pages \cup parsed_pages' :
               r.book_path # n => (r \in parsed_pages <=> r \in parsed_pages')
        /\ exercises' = exercises
        /\ exercise_questions' = exercise_questions

CE_C15 ==
    xe.pc = "idle" =>
        \A d \in detected :
            LET res == get_exercises(exercises, exercise_questions, d.book_name,
                                     d.page_num)
            IN  \A i \in DOMAIN d.exercises : \E j \in DOMAIN res :
                    /\ res[j].title = d.exercises[i].title
                    /\ res[j].questions = d.exercises[i].questions

\* the committed tables hold exactly the rows of the calls that committed:
\* each exercise row with all its question rows, indexed 0..n-1
CommittedWhole ==
    /\ exercises = [k \in DOMAIN given |-> ExerciseRow(given[k].id, given[k].exercise)]
    /\ \A k \in DOMAIN given :
           LET qs == {q \in exercise_questions : q.exercise_id = given[k].id}
           IN  /\ Cardinality(qs) = Len(given[k].exercise.questions)
               /\ {q.question_order : q \in qs}
                      = 0..(Len(given[k].exercise.questions) - 1)
    /\ \A q \in exercise_questions : \E k \in DOMAIN given : given[k].id = q.exercise_id

\* every exercise a get_exercises call has assembled so far is a committed one
\* with all its questions
ReadWhole ==
    \A k \in DOMAIN rd.out : \E j \in DOMAIN given :
        /\ given[j].id = rd.out[k].id
        /\ given[j].exercise.questions = rd.out[k].questions

\* C16: the exercise row and its question rows, indexed 0..n-1, appear together
\* at the commit; a get_exercises call running beside store_exercise never
\* returns an exercise with part of its questions; a store_exercise that fails
\* part-way leaves nothing in the tables
Thm_C16 ==
    /\ CommittedWhole
    /\ ReadWhole
    /\ ex_ret.kind = "raised" => Len(exercises) = Len(given)

\* a reader that has read a committed exercise row is between two of its
\* SELECTs while store_exercise has inserted one of its two questions
Wit_C16 ==
    /\ tx.active
    /\ tx.i = 1
    /\ Len(tx.exercise.questions) = 2
    /\ rd.pc = "questions"
    /\ Len(rd.rows) >= 1
    /\ rd.i <= Len(rd.rows)

\* C17: split_pdf on a document of n pages returns a mapping whose keys are
\* exactly 0..n-1, each to a distinct artifact holding that one page; whatever
\* was split under the same name before, the output directory then holds
\* exactly the artifacts named in the mapping
Thm_C17 ==
    split_ret.kind = "ok" =>
        LET n == NumPages(split_ret.doc)
            files == split_ret.files
        IN  /\ DOMAIN files = 0..(n - 1)
            /\ \A p, q \in DOMAIN files : files[p] = files[q] => p = q
            /\ \A p \in DOMAIN files :
                   /\ files[p].doc = split_ret.doc
                   /\ files[p].page = p
            /\ output_dir.exists
            /\ output_dir.files = {files[p] : p \in DOMAIN files}
            /\ Cardinality(output_dir.files) = n

\* the directory held the artifacts of a longer document when the split ran
Wit_C17 ==
    /\ split_ret.kind = "ok"
    /\ Cardinality(split_ret.dir_before.files) > NumPages(split_ret.doc)
    /\ \A f \in split_ret.dir_before.files : f.doc # split_ret.doc

\* a parse_pdf run ended by the splitter's exception got no mapping and made
\* no is_page_parsed, extract_text or store_parsed_page call
NothingDone ==
    outcome = "split-error" =>
        /\ split_ret.kind \in {"NotFound", "CorruptInput"}
        /\ split_ret.files = NoPages
        /\ pages = NoPages
        /\ pc = "done"
        /\ \A p \in AllPages : checked[p] = "unchecked" /\ extracted[p] = NotCalled
        /\ stored = {}
        /\ http = << >>

\* the kind of failure follows the input file, and a missing input leaves the
\* output directory as it was
SplitFailure ==
    (ParsePdfPath(InputPdf) \/ SplitCall(InputPdf)) =>
        /\ pdf_file = Missing =>
               /\ split_ret'.kind = "NotFound"
               /\ output_dir' = output_dir
        /\ pdf_file = Corrupt => split_ret'.kind = "CorruptInput"
        /\ split_ret'.kind # "ok" =>
               /\ split_ret'.files = NoPages
               /\ parsed_pages' = parsed_pages

CE_C19 ==
    \A i \in DOMAIN exercises :
        is_page_parsed(parsed_pages, exercises[i].book_path, exercises[i].page_number)

\* store_parsed_page and clear_book_pages answer a sqlite3.Error with False and
\* an unchanged table, and answer True only after their write; an error inside
\* store_exercise reaches the caller as an exception
ErrorPolicy ==
    /\ \A b \in StoreBooks, p \in DataPages, c \in DataTexts, f \in Faults :
           StoreParsedPageTry(ParsedPage(b, p, c, None), f) =>
               /\ store_ret' \in {"True", "False"}
               /\ f # "none" => (store_ret' = "False" /\ parsed_pages' = parsed_pages)
               /\ store_ret' = "True" =>
                      (f = "none" /\ ParsedPage(b, p, c, None) \in parsed_pages')
    /\ \A b \in StoreBooks, f \in Faults :
           ClearBookPagesTry(b, f) =>
               /\ store_ret' \in {"True", "False"}
               /\ f # "none" => (store_ret' = "False" /\ parsed_pages' = parsed_pages)
               /\ store_ret' = "True" =>
                      (f = "none" /\ \A r \in parsed_pages' : r.book_path # b)
    /\ StoreExerciseError =>
           /\ ex_ret'.kind = "raised"
           /\ exercises' = exercises
           /\ exercise_questions' = exercise_questions

\* C20: store_parsed_page and clear_book_pages never raise on a store-layer
\* error: they return False and leave the parsed-pages table unchanged, and
\* return True only when the write was committed; store_exercise lets the
\* error propagate as an exception
Thm_C20 == [][ErrorPolicy]_vars

\* clear_book_pages failed on a book that has a page, which is still there,
\* after a store_exercise call ended with an exception
Wit_C20 ==
    /\ last_store.op = "try-clear"
    /\ store_ret = "False"
    /\ last_store.before # {}
    /\ \E r \in parsed_pages : r.book_path = last_store.book
    /\ ex_ret.kind = "raised"

\* a returned identifier is the one of the row just inserted, and no two
\* exercise rows share an identifier
ReturnsFreshId ==
    /\ \A i, j \in DOMAIN exercises : exercises[i].id = exercises[j].id => i = j
    /\ ex_ret.kind = "id" =>
           /\ ex_ret.id >= 1
           /\ exercises[Len(exercises)].id = ex_ret.id
           /\ given[Len(given)].id = ex_ret.id

OneAtATime ==
    outcome \in {"running", "returned", "fatal", "crashed"} =>
        /\ \A p \in DOMAIN pages :
               /\ p < page_num =>
                      /\ checked[p] \in {"yes", "no"}
                      /\ checked[p] = "no" => extracted[p] # NotCalled
                      /\ GotText(p) => p \in stored
               /\ p > page_num =>
                      /\ checked[p] = "unchecked"
                      /\ extracted[p] = NotCalled
                      /\ p \notin stored
        /\ (InClient /\ x_caller = "parser") =>
               /\ page_num \in DOMAIN pages
               /\ x_file = pages[page_num]
               /\ checked[page_num] = "no"
               /\ extracted[page_num] = NotCalled
               /\ page_num \notin stored

\* the loop variable moves one page up at a time, from the loop head or from
\* the end of the loop body, and starts at 0 with each run
Ascending ==
    page_num' # page_num =>
        \/ page_num' = page_num + 1 /\ pc \in {"loop", "x_ret"} /\ pc' = "loop"
        \/ page_num' = 0 /\ pc \in {"idle", "done"}

\* C22: within a run pages are taken in ascending index, one at a time: the
\* extraction call with its polling and the store of page i are over before
\* the check or the extraction of a later page begins, and at most one
\* extraction call is in flight
Thm_C22 == [](OneAtATime) /\ [][Ascending]_vars

\* page 2 is being polled for after page 0 was stored and page 1 handled
Wit_C22 ==
    /\ pc = "x_poll"
    /\ x_caller = "parser"
    /\ page_num = 2
    /\ Calls(http, "poll") >= 1
    /\ 0 \in stored
    /\ checked[1] = "no"

\* C23: the polling loop has no bound: while every poll is answered with a
\* non-terminal state extract_text does not return and the run does not finish;
\* against a service that brings every task to SUCCESS or FAILURE every
\* extract_text call and every run ends
Thm_C23 ==
    /\ [](service_hangs /\ pc = "x_poll" => [](pc = "x_poll" /\ outcome = "running"))
    /\ [](~service_hangs /\ InClient => <>(pc \in {"loop", "done"}))
    /\ [](~service_hangs /\ outcome = "running" => <>(pc = "done"))

\* the loop has polled MaxPolls times against a hung service and polls on
Wit_C23 ==
    /\ service_hangs
    /\ pc = "x_poll"
    /\ Calls(http, "poll") = MaxPolls
    /\ page_num = 1

\* C24: get_all_parsed_pages(b) returns exactly the rows of b, each once, in
\* strictly ascending page number whatever the order of the stores;
\* get_parsed_page(b, i) returns the row of (b, i) when is_page_parsed(b, i)
\* and nothing otherwise
Thm_C24 ==
    \A b \in StoreBooks :
        LET listing == get_all_parsed_pages(parsed_pages, b)
        IN  /\ {listing[i] : i \in DOMAIN listing} = {r \in parsed_pages : r.book_path = b}
            /\ Len(listing) = Cardinality({r \in parsed_pages : r.book_path = b})
            /\ \A i, j \in DOMAIN listing :
                   i < j => listing[i].page_number < listing[j].page_number
            /\ \A p \in StorePages :
                   IF \E r \in parsed_pages : r.book_path = b /\ r.page_number = p
                   THEN /\ is_page_parsed(parsed_pages, b, p)
                        /\ get_parsed_page(parsed_pages, b, p) \in parsed_pages
                        /\ get_parsed_page(parsed_pages, b, p).book_path = b
                        /\ get_parsed_page(parsed_pages, b, p).page_number = p
                   ELSE /\ ~is_page_parsed(parsed_pages, b, p)
                        /\ get_parsed_page(parsed_pages, b, p) = NoRow

\* page 0 of a book was stored for the first time after its page 1
Wit_C24 ==
    /\ last_store.op = "store"
    /\ last_store.page = 0
    /\ last_store.before = {}
    /\ is_page_parsed(parsed_pages, last_store.book, 1)
    /\ Len(get_all_parsed_pages(parsed_pages, last_store.book)) = 2

\* the smaller of two numbers
Min(a, b) == IF a < b THEN a ELSE b

\* C26: for a book with n >= 1 parsed pages, show_pages with
\* 1 <= start_page_num <= n and number_of_pages >= 1 shows exactly
\* min(number_of_pages, n - start_page_num + 1) pages, those at positions
\* start_page_num .. start_page_num + count - 1 of the listing sorted by page
\* number; any other start_page_num or number_of_pages is rejected with an error
CE_C26 ==
    LET n == Len(shown.listing)
        count == Min(shown.number, n - shown.start + 1)
    IN  (shown.kind \in {"shown", "ValueError"} /\ n >= 1) =>
            IF shown.start >= 1 /\ shown.start <= n /\ shown.number >= 1
            THEN /\ shown.kind = "shown"
                 /\ shown.pages = SubSeq(shown.listing, shown.start,
                                         shown.start + count - 1)
            ELSE shown.kind = "ValueError"

\* the step of clear_book_pages(b): every page row of b goes, True is returned,
\* and books, exercises, questions and other books' pages stay
ClearFrame ==
    (last_store.op # "clear" /\ last_store'.op = "clear") =>
        /\ parsed_pages' = {r \in parsed_pages : r.book_path # last_store'.book}
        /\ store_ret' = "True"
        /\ UNCHANGED <<books, exercises, exercise_questions>>
        /\ \A p \in AllPages : ~is_page_parsed(parsed_pages', last_store'.book, p)

\* the run of the book that follows clear_book_pages(book) finds no page parsed
ReExtracts ==
    (last_store.op = "clear" /\ last_store.book = run_book /\ run_no = 2) =>
        \A p \in DOMAIN pages : checked[p] # "yes"

\* C25: clear_book_pages(b) removes every ParsedPage row of b and returns True,
\* leaving book rows, exercise and question rows and other books' pages
\* unchanged; afterwards is_page_parsed(b, i) is false for every i, so the next
\* orchestrator run on b extracts every page again
CE_C25 == [][ClearFrame]_vars /\ [](ReExtracts)

\* C27: if parse_pdf returns without raising, every page whose extraction in
\* this run returned non-empty text has a ParsedPage row afterwards, for every
\* outcome of store_parsed_page including a reported failure
CE_C27 ==
    outcome = "returned" =>
        \A p \in DOMAIN pages :
            GotText(p) => is_page_parsed(parsed_pages, book_name, p)

\* C29: for every page artifact extract_text returns an ExtractionResult object
\* and never returns nothing, also for a success-status body with neither
\* non-empty text nor a task id; so the orchestrator's check of result.error is
\* always well-defined and its only failure on a page is the fatal extraction error
CE_C29 ==
    /\ (pc = "x_ret" /\ x_caller = "parser") => ~result.is_none
    /\ \A p \in AllPages : extracted[p] # NotCalled => ~extracted[p].is_none
    /\ outcome \in {"none", "not-found", "running", "returned", "fatal"}

\* C30: after any sequence of add_llm, remove_llm and set_default_llm from the
\* default settings, default_llm_name is a key of llms_config, so
\* get_service_factory without an LLM name never fails with "LLM ... not found"
CE_C30 ==
    /\ default_llm_name \in DOMAIN llms_config
    /\ factory.llm_name = None => factory.kind # "ValueError"

\* C28: under any interleaving of two runs started through parse_pdf_from_bytes,
\* the page artifact a run hands to the Extraction Client for page i still
\* exists and is page i of that run's own document: no write of the temp
\* document, split or cleanup of one run deletes or overwrites what the other
\* run is still using
CE_C28 ==
    \A r \in Runs :
        jobs[r].handed.page >= 0 =>
            /\ jobs[r].handed.file # NoFile
            /\ jobs[r].handed.file.doc = jobs[r].doc
            /\ jobs[r].handed.file.page = jobs[r].handed.page

====
